---- MODULE Spec2Model ----
(***************************************************************************)
(* Model of the aggregation and caching engine of github-contributions     *)
(* (src/src/lib.ts): the memory cache with its background revalidation,    *)
(* the durable cache file, the PR aggregation, the star enrichment and the *)
(* filter/sort/limit projection that getRepos applies on every read.       *)
(*                                                                         *)
(* Every call of the async function fetchAndCache is a task; a task takes  *)
(* one step per remote answer it awaits (the cache file, a search page, a  *)
(* repository's metadata), and everything between two awaits is one step.  *)
(***************************************************************************)
EXTENDS Integers, Sequences, FiniteSets, Bags, TLC

VARIABLES
    now,               \* Date.now(), ms since the process started
    memoryCache,       \* lib.ts:48  the Map: a function from the usernames it holds
    revalidatePromise, \* lib.ts:53  "null" or "promise"
    revalidateUser,    \* lib.ts:54  "null" or a username
    disk,              \* the file cache.json: <<>> when absent, else <<its Cache>>
    tasks,             \* bag of the fetchAndCache calls that have not settled
    finished,          \* username -> value of the last fetchAndCache that returned
    out,               \* what the step just taken handed to a caller of getRepos
    call               \* a function of lib.ts applied on its own: its arguments
                       \* and what it has computed so far

vars == <<now, memoryCache, revalidatePromise, revalidateUser, disk, tasks,
          finished, out, call>>

-----------------------------------------------------------------------------
(* Bounds of the model *)

MaxInFlight == 2
MaxTicks == 3
CurrentYear == 2016
\* The enrichment pass on its own: the PR records folded before it, and the
\* largest config.starsLimit.
MaxFolded == 4
MaxBudget == 3
\* The fold of PR records on its own: the most records one aggregation gets.
MaxRecords == 4
\* filterRepos on its own: the most repositories, and the most names in
\* config.include.
MaxRepos == 2
MaxIncluded == 2
\* sortRepos on its own: the most repositories.
MaxSorted == 3
\* The reads of a process with the remote answering every call: the largest
\* config.limit.
MaxLimit == 2
\* The paging of one year on its own: the most PR records of the year.
MaxYearRecords == 201

-----------------------------------------------------------------------------
(* Constants of the program *)

CACHE_TTL_MS == 24 * 60 * 60 * 1000
CACHE_AGE_MS == 60 * 1000
STALE_WHILE_REVALIDATE_MS == 24 * 60 * 60 * 1000
perPage == 100
startYear == 2015

Users == {"alice", "bob"}

DEFAULT_CONFIG ==
    [scope |-> "external", sortBy |-> "stars", includePrivate |-> FALSE,
     limit |-> 0, include |-> <<>>, exclude |-> <<>>, starsLimit |-> 20]

\* The configurations the reads of the model are made with.
Configs ==
    {[DEFAULT_CONFIG EXCEPT !.scope = "all", !.starsLimit = 1]}

\* The instants the clock takes: 0 and the freshness window, then the same
\* one staleness window later, and so on.
Instant(k) == (k \div 2) * STALE_WHILE_REVALIDATE_MS + (k % 2) * CACHE_AGE_MS

Instants == {Instant(k) : k \in 0..MaxTicks}

-----------------------------------------------------------------------------
(* The remote: what the search and the repository endpoints answer *)

RepoUrl(owner, name) == <<"https:", "", "api.github.com", "repos", owner, name>>

\* The PR records of a user, newest first.  A url is the list of its
\* "/"-separated parts, a timestamp the list <<year, month, day>> that orders
\* as its ISO-8601 text does.
PullRequests(username) ==
    IF username = "alice"
    THEN << [repository_url |-> RepoUrl("alice", "x"), created_at |-> <<CurrentYear, 3, 1>>],
            [repository_url |-> RepoUrl("alice", "x"), created_at |-> <<CurrentYear, 2, 1>>],
            [repository_url |-> RepoUrl("bob", "y"), created_at |-> <<startYear, 5, 1>>] >>
    ELSE <<>>

\* The records the search returns for author:username created in `year`, in
\* the order of the result list (sort=created, order=desc).
SearchItems(username, year) ==
    LET InYear(pr) == pr.created_at[1] = year
    IN  SelectSeq(PullRequests(username), InYear)

\* The page `page` of the result list `all`, perPage items to a page.
PageOf(all, page) ==
    LET lo == (page - 1) * perPage + 1
        hi == IF page * perPage < Len(all) THEN page * perPage ELSE Len(all)
    IN  IF lo > hi THEN <<>> ELSE SubSeq(all, lo, hi)

\* /search/issues?...&per_page=perPage&page=page
SearchPage(username, year, page) == PageOf(SearchItems(username, year), page)

\* /repos/{fullName}
RepoData(fullName) ==
    IF fullName = <<"alice", "x">> THEN [stargazers_count |-> 5, private |-> FALSE]
    ELSE IF fullName = <<"bob", "y">> THEN [stargazers_count |-> 50, private |-> FALSE]
    ELSE [stargazers_count |-> 0, private |-> FALSE]

-----------------------------------------------------------------------------
(* Helpers on sequences *)

\* Array.prototype.slice(from, to), 0-based, `to` exclusive
Slice(s, from, to) ==
    LET hi == IF to < Len(s) THEN to ELSE Len(s)
    IN  IF from >= hi THEN <<>> ELSE SubSeq(s, from + 1, hi)

\* string comparison of two timestamps of the same shape: -1, 0 or 1
RECURSIVE localeCompare(_, _)
localeCompare(a, b) ==
    IF a = <<>> /\ b = <<>> THEN 0
    ELSE IF a = <<>> THEN -1
    ELSE IF b = <<>> THEN 1
    ELSE IF Head(a) < Head(b) THEN -1
    ELSE IF Head(a) > Head(b) THEN 1
    ELSE localeCompare(Tail(a), Tail(b))

-----------------------------------------------------------------------------
(* Repositories and the PR aggregation *)

\* url.startsWith("https://api.github.com/repos/")
isValidRepoUrl(url) ==
    /\ Len(url) >= 5
    /\ SubSeq(url, 1, 4) = <<"https:", "", "api.github.com", "repos">>

\* The fullName "owner/name" as the pair <<owner, name>>, or <<>> for null.
parseRepoUrl(url) ==
    IF ~isValidRepoUrl(url) THEN <<>>
    ELSE <<url[Len(url) - 1], url[Len(url)]>>

\* fullName.startsWith(`${username}/`)
IsOwned(fullName, username) == fullName[1] = username

IndexOf(repos, fullName) ==
    IF \E i \in 1..Len(repos) : repos[i].fullName = fullName
    THEN CHOOSE i \in 1..Len(repos) : repos[i].fullName = fullName
    ELSE 0

Has(repos, fullName) == IndexOf(repos, fullName) # 0

\* pr.repository_url is there.  When it is undefined, url.startsWith in
\* isValidRepoUrl throws a TypeError.
HasUrl(pr) == "repository_url" \in DOMAIN pr

\* FoldPR with a record of a repository already in reposMap not counted.
FoldPRCountingOnce(reposMap, pr, username) ==
    LET fullName == parseRepoUrl(pr.repository_url)
    IN  IF fullName = <<>> \/ IndexOf(reposMap, fullName) # 0 THEN reposMap
        ELSE Append(reposMap,
                [name |-> fullName[2], fullName |-> fullName, stars |-> 0,
                 prCount |-> 1, isOwned |-> IsOwned(fullName, username),
                 isPrivate |-> FALSE, lastContributedAt |-> pr.created_at])

\* FoldPR with lastContributedAt set to the record folded last.
FoldPRLatestFolded(reposMap, pr, username) ==
    LET fullName == parseRepoUrl(pr.repository_url)
        k == IndexOf(reposMap, fullName)
    IN  IF fullName = <<>> THEN reposMap
        ELSE IF k # 0
        THEN [reposMap EXCEPT ![k].prCount = @ + 1,
                              ![k].lastContributedAt = pr.created_at]
        ELSE Append(reposMap,
                [name |-> fullName[2], fullName |-> fullName, stars |-> 0,
                 prCount |-> 1, isOwned |-> IsOwned(fullName, username),
                 isPrivate |-> FALSE, lastContributedAt |-> pr.created_at])

\* One PR record folded into reposMap (the body of the loop over items).
\* reposMap is the Map's values in insertion order.
FoldPR(reposMap, pr, username) ==
    LET fullName == parseRepoUrl(pr.repository_url)
        k == IndexOf(reposMap, fullName)
    IN  IF fullName = <<>> THEN reposMap
        ELSE IF k # 0
        THEN [reposMap EXCEPT
                ![k].prCount = @ + 1,
                ![k].lastContributedAt =
                    IF localeCompare(pr.created_at, @) > 0 THEN pr.created_at ELSE @]
        ELSE Append(reposMap,
                [name |-> fullName[2], fullName |-> fullName, stars |-> 0,
                 prCount |-> 1, isOwned |-> IsOwned(fullName, username),
                 isPrivate |-> FALSE, lastContributedAt |-> pr.created_at])

\* The loop over items[lo..hi] of a page, in order: the items up to the middle
\* are folded first (the comparison computes that map), and the rest are
\* folded into it.
RECURSIVE FoldRange(_, _, _, _, _)
FoldRange(reposMap, items, lo, hi, username) ==
    IF lo > hi THEN reposMap
    ELSE IF lo = hi THEN FoldPR(reposMap, items[lo], username)
    ELSE LET mid == (lo + hi) \div 2
             firstHalf == FoldRange(reposMap, items, lo, mid, username)
         IN  IF firstHalf = <<>> THEN FoldRange(<<>>, items, mid + 1, hi, username)
             ELSE FoldRange(firstHalf, items, mid + 1, hi, username)

FoldItems(reposMap, items, username) ==
    FoldRange(reposMap, items, 1, Len(items), username)

-----------------------------------------------------------------------------
(* The durable cache *)

MsPerDay == 24 * 60 * 60 * 1000

\* new Date(ms).toISOString(): the date part and the time-of-day part
toISOString(ms) == <<ms \div MsPerDay, ms % MsPerDay>>

\* new Date(iso).getTime()
getTime(iso) == iso[1] * MsPerDay + iso[2]

EmptyCache == [username |-> "", repos |-> <<>>, fetchedAt |-> <<>>]

\* loadCache: the file's content, the empty cache when there is no file
loadCache(file) == IF file = <<>> THEN EmptyCache ELSE file[1]

isCacheStale(cache, t) ==
    IF cache.fetchedAt = <<>> THEN TRUE
    ELSE t - getTime(cache.fetchedAt) > CACHE_TTL_MS

\* saveCache: the text written to the file
saveCache(cache, t) == <<[cache EXCEPT !.fetchedAt = toISOString(t)]>>

\* cache.repos[fullName] = repo
SetRepo(repos, repo) ==
    IF Has(repos, repo.fullName)
    THEN [repos EXCEPT ![IndexOf(repos, repo.fullName)] = repo]
    ELSE Append(repos, repo)

-----------------------------------------------------------------------------
(* The projection: filter, sort, limit *)

InList(list, x) == \E i \in 1..Len(list) : list[i] = x

\* KeepRepo with config.include looked up before config.exclude.
KeepRepoIncludeFirst(repo, config) ==
    IF InList(config.include, repo.fullName) THEN TRUE
    ELSE IF InList(config.exclude, repo.fullName) THEN FALSE
    ELSE IF config.scope = "own" /\ ~repo.isOwned THEN FALSE
    ELSE IF config.scope = "external" /\ repo.isOwned THEN FALSE
    ELSE IF ~config.includePrivate /\ repo.isPrivate THEN FALSE
    ELSE TRUE

\* The callback of repos.filter in filterRepos.
KeepRepo(repo, config) ==
    IF InList(config.exclude, repo.fullName) THEN FALSE
    ELSE IF InList(config.include, repo.fullName) THEN TRUE
    ELSE IF config.scope = "own" /\ ~repo.isOwned THEN FALSE
    ELSE IF config.scope = "external" /\ repo.isOwned THEN FALSE
    ELSE IF ~config.includePrivate /\ repo.isPrivate THEN FALSE
    ELSE TRUE

\* PushIncluded without the look-up in filteredSet.
RECURSIVE PushIncludedUnchecked(_, _, _, _)
PushIncludedUnchecked(filtered, filteredSet, include, ctx) ==
    IF include = <<>> THEN filtered
    ELSE LET fullName == Head(include)
             k == IndexOf(ctx.allRepos, fullName)
         IN  IF ~InList(ctx.config.exclude, fullName) /\ k # 0
             THEN PushIncludedUnchecked(Append(filtered, ctx.allRepos[k]), filteredSet,
                                        Tail(include), ctx)
             ELSE PushIncludedUnchecked(filtered, filteredSet, Tail(include), ctx)

\* The second pass of filterRepos: the included names not yet in `filtered`.
RECURSIVE PushIncluded(_, _, _, _)
PushIncluded(filtered, filteredSet, include, ctx) ==
    IF include = <<>> THEN filtered
    ELSE LET fullName == Head(include)
             k == IndexOf(ctx.allRepos, fullName)
         IN  IF fullName \notin filteredSet
                /\ ~InList(ctx.config.exclude, fullName)
                /\ k # 0
             THEN PushIncluded(Append(filtered, ctx.allRepos[k]), filteredSet,
                               Tail(include), ctx)
             ELSE PushIncluded(filtered, filteredSet, Tail(include), ctx)

filterRepos(repos, config, allRepos) ==
    LET Keep(repo) == KeepRepo(repo, config)
        filtered == SelectSeq(repos, Keep)
        filteredSet == {filtered[i].fullName : i \in 1..Len(filtered)}
    IN  PushIncluded(filtered, filteredSet, config.include,
                     [config |-> config, allRepos |-> allRepos])

\* CompareRepos with the score of "all" linear in prCount.
CompareReposLinearScore(a, b, sortBy) ==
    CASE sortBy = "stars" -> b.stars - a.stars
      [] sortBy = "contributions" -> b.prCount - a.prCount
      [] sortBy = "all" -> b.stars * b.prCount - a.stars * a.prCount
      [] sortBy = "recent" -> localeCompare(b.lastContributedAt, a.lastContributedAt)
      [] OTHER -> 0

\* The comparator of sortRepos
CompareRepos(a, b, sortBy) ==
    CASE sortBy = "stars" -> b.stars - a.stars
      [] sortBy = "contributions" -> b.prCount - a.prCount
      [] sortBy = "all" ->
            b.stars * (b.prCount * b.prCount) - a.stars * (a.prCount * a.prCount)
      [] sortBy = "recent" -> localeCompare(b.lastContributedAt, a.lastContributedAt)
      [] OTHER -> 0

\* Array.prototype.sort with the comparator of sortBy: a stable sort; a comes
\* before b when the comparator is negative, and equal elements keep their order.
StableSort(s, sortBy) ==
    LET Before(j, i) ==
            \/ CompareRepos(s[j], s[i], sortBy) < 0
            \/ (CompareRepos(s[j], s[i], sortBy) = 0 /\ j < i)
        Rank(i) == Cardinality({j \in 1..Len(s) : Before(j, i)})
    IN  [k \in 1..Len(s) |-> s[CHOOSE i \in 1..Len(s) : Rank(i) = k - 1]]

\* sortRepos returning the copy as it is.
sortReposUnsorted(repos, config) == [i \in 1..Len(repos) |-> repos[i]]

sortRepos(repos, config) == StableSort([i \in 1..Len(repos) |-> repos[i]], config.sortBy)

\* Project without the cut to config.limit.
ProjectUncut(repos, config) == sortRepos(filterRepos(repos, config, repos), config)

\* filter, sort and cut to the limit, as getRepos does on both paths
Project(repos, config) ==
    LET sorted == sortRepos(filterRepos(repos, config, repos), config)
    IN  IF config.limit > 0 THEN Slice(sorted, 0, config.limit) ELSE sorted

-----------------------------------------------------------------------------
(* fetchAndCache, one call of it being a task *)

NewTask(username, config, awaited) ==
    [user |-> username, config |-> config, awaited |-> awaited, pc |-> "loadCache",
     cache |-> EmptyCache, reposMap |-> <<>>, year |-> 0, page |-> 0,
     repos |-> <<>>, toFetch |-> <<>>, i |-> 0]

\* config.starsLimit || 20
StarsLimit(config) == IF config.starsLimit = 0 THEN 20 ELSE config.starsLimit

\* Finish without the loop over otherRepos.
FinishWithoutBackfill(t, repos, cache) ==
    [kind |-> "return", repos |-> repos, cache |-> cache]

\* The loop over otherRepos, then the value fetchAndCache saves and returns.
Finish(t, repos, cache) ==
    LET Backfilled(k) ==
            LET c == IndexOf(cache.repos, repos[k].fullName)
            IN  IF k > StarsLimit(t.config) /\ c # 0
                THEN [repos[k] EXCEPT !.stars = cache.repos[c].stars,
                                      !.isPrivate = cache.repos[c].isPrivate]
                ELSE repos[k]
    IN  [kind |-> "return",
         repos |-> [k \in 1..Len(repos) |-> Backfilled(k)],
         cache |-> cache]

\* repos.sort by prCount, the split at starsLimit, and fetchStarsForRepos up
\* to its first fetchRepoData; toFetch holds positions in repos.
StartEnrich(t, unsorted, cache) ==
    LET \* (a, b) => b.prCount - a.prCount, the comparator of "contributions"
        repos == StableSort(unsorted, "contributions")
        top == IF StarsLimit(t.config) < Len(repos) THEN StarsLimit(t.config)
               ELSE Len(repos)
        NotCached(k) == ~Has(cache.repos, repos[k].fullName)
        toFetch == SelectSeq([k \in 1..top |-> k], NotCached)
        FromCache(k) ==
            LET c == cache.repos[IndexOf(cache.repos, repos[k].fullName)]
            IN  [repos[k] EXCEPT !.stars = c.stars, !.isOwned = c.isOwned,
                                 !.isPrivate = c.isPrivate,
                                 !.lastContributedAt = c.lastContributedAt]
        copied == [k \in 1..Len(repos) |->
                      IF k <= top /\ ~NotCached(k) THEN FromCache(k) ELSE repos[k]]
    IN  IF toFetch = <<>> THEN Finish(t, copied, cache)
        ELSE [kind |-> "await",
              task |-> [t EXCEPT !.pc = "fetchRepoData", !.cache = cache,
                                 !.reposMap = <<>>, !.year = 0, !.page = 0,
                                 !.repos = copied, !.toFetch = toFetch, !.i = 1]]

\* AfterLoadCache without the comparison of cache.username.
AfterLoadCacheAnyUser(t, file, time) ==
    LET cache == loadCache(file)
    IN  IF ~isCacheStale(cache, time) /\ Len(cache.repos) > 0
        THEN StartEnrich(t, cache.repos, cache)
        ELSE [kind |-> "await",
              task |-> [t EXCEPT !.pc = "search", !.cache = cache,
                                 !.year = CurrentYear, !.page = 1]]

\* The rest of fetchAndCache once loadCache has answered with `file`.
AfterLoadCache(t, file, time) ==
    LET cache == loadCache(file)
    IN  IF ~isCacheStale(cache, time) /\ cache.username = t.user /\ Len(cache.repos) > 0
        THEN StartEnrich(t, cache.repos, cache)
        ELSE [kind |-> "await",
              task |-> [t EXCEPT !.pc = "search", !.cache = cache,
                                 !.year = CurrentYear, !.page = 1]]

\* AfterSearchPage with the year left after its first page.
AfterSearchPageOnePage(t, items) ==
    LET folded == FoldItems(t.reposMap, items, t.user)
    IN  IF \E k \in 1..Len(items) : ~HasUrl(items[k]) THEN [kind |-> "throw"]
        ELSE IF t.year > startYear
        THEN [kind |-> "await",
              task |-> [t EXCEPT !.reposMap = folded, !.year = @ - 1, !.page = 1]]
        ELSE StartEnrich(t, folded, [t.cache EXCEPT !.username = t.user])

\* fetchPRsForYear and fetchContributedRepos once the search has answered
\* with the page `items`.
AfterSearchPage(t, items) ==
    LET folded == FoldItems(t.reposMap, items, t.user)
    IN  IF \E k \in 1..Len(items) : ~HasUrl(items[k]) THEN [kind |-> "throw"]
        ELSE IF Len(items) # 0 /\ ~(Len(items) < perPage)
        THEN [kind |-> "await", task |-> [t EXCEPT !.reposMap = folded, !.page = @ + 1]]
        ELSE IF t.year > startYear
        THEN [kind |-> "await",
              task |-> [t EXCEPT !.reposMap = folded, !.year = @ - 1, !.page = 1]]
        ELSE StartEnrich(t, folded, [t.cache EXCEPT !.username = t.user])

\* fetchRepoData: the answer of the remote, the defaults when the call failed
fetchRepoData(fullName, ok) ==
    IF ok THEN [stars |-> RepoData(fullName).stargazers_count,
                isPrivate |-> RepoData(fullName).private]
    ELSE [stars |-> 0, isPrivate |-> FALSE]

\* AfterRepoData with the error of a failed fetch thrown on.
AfterRepoDataPropagating(t, ok) ==
    LET k == t.toFetch[t.i]
        data == fetchRepoData(t.repos[k].fullName, ok)
        repos == [t.repos EXCEPT ![k].stars = data.stars,
                                 ![k].isPrivate = data.isPrivate]
        cache == [t.cache EXCEPT !.repos = SetRepo(@, repos[k])]
    IN  IF ~ok THEN [kind |-> "throw"]
        ELSE IF t.i < Len(t.toFetch)
        THEN [kind |-> "await", task |-> [t EXCEPT !.repos = repos, !.cache = cache,
                                                   !.i = @ + 1]]
        ELSE Finish(t, repos, cache)

\* The loop of fetchStarsForRepos once fetchRepoData has answered for toFetch[i].
AfterRepoData(t, ok) ==
    LET k == t.toFetch[t.i]
        data == fetchRepoData(t.repos[k].fullName, ok)
        repos == [t.repos EXCEPT ![k].stars = data.stars,
                                 ![k].isPrivate = data.isPrivate]
        cache == [t.cache EXCEPT !.repos = SetRepo(@, repos[k])]
    IN  IF t.i < Len(t.toFetch)
        THEN [kind |-> "await", task |-> [t EXCEPT !.repos = repos, !.cache = cache,
                                                   !.i = @ + 1]]
        ELSE Finish(t, repos, cache)

\* SearchFailed with the error swallowed: the refresh goes on with the
\* records folded so far.
SearchFailedKeepsPartial(t) ==
    StartEnrich(t, t.reposMap, [t.cache EXCEPT !.username = t.user])

\* A search page that failed: ghApi throws, and so does fetchAndCache.
SearchFailed(t) == [kind |-> "throw"]

-----------------------------------------------------------------------------
(* getRepos *)

NoOut == [kind |-> "none"]

\* No function is being applied on its own.
NoCall == [fn |-> "none"]

NO_CACHE == [fromCache |-> FALSE, isStale |-> FALSE, age |-> 0]

Response(username, config, repos, stats) ==
    [kind |-> "response", user |-> username, config |-> config,
     repos |-> repos, cache |-> stats]

\* The rejection of the promise getRepos returned.
Rejection(username) == [kind |-> "error", user |-> username]

\* The rejection of revalidatePromise, which no handler is attached to.
UnhandledRejection(username) == [kind |-> "unhandledRejection", user |-> username]

Cached(username) == username \in DOMAIN memoryCache

\* IsFresh with <= for <.
IsFreshInclusive(username, time) ==
    Cached(username) /\ (time - memoryCache[username].fetchedAt) <= CACHE_AGE_MS

IsFresh(username, time) ==
    Cached(username) /\ (time - memoryCache[username].fetchedAt) < CACHE_AGE_MS

IsStale(username, time) ==
    Cached(username)
        /\ (time - memoryCache[username].fetchedAt) < STALE_WHILE_REVALIDATE_MS

FromCache(username, time) == IsFresh(username, time) \/ IsStale(username, time)

\* The condition under which a cache hit starts a revalidation.
StartsRevalidation(username, time) ==
    IsStale(username, time)
        /\ (revalidatePromise = "null" \/ revalidateUser # username)

HitStats(username, time) ==
    [fromCache |-> TRUE, isStale |-> ~IsFresh(username, time),
     age |-> time - memoryCache[username].fetchedAt]

MapSet(map, key, value) ==
    [k \in DOMAIN map \cup {key} |-> IF k = key THEN value ELSE map[k]]

\* SettleAwait with memoryCache.set moved before the enrichment loop.
SettleAwaitPublishing(t, result) ==
    /\ tasks' = (tasks (-) SetToBag({t})) (+) SetToBag({result.task})
    /\ out' = NoOut
    /\ memoryCache' =
          IF result.task.pc = "fetchRepoData"
          THEN MapSet(memoryCache, t.user,
                      [data |-> result.task.repos, fetchedAt |-> now])
          ELSE memoryCache
    /\ UNCHANGED <<disk, finished>>

\* A step of task t that ends at its next await.
SettleAwait(t, result) ==
    /\ tasks' = (tasks (-) SetToBag({t})) (+) SetToBag({result.task})
    /\ out' = NoOut
    /\ UNCHANGED <<memoryCache, disk, finished>>

\* The end of fetchAndCache: saveCache, memoryCache.set, return repos; and
\* the rest of getRepos when it awaited this call.
SettleReturn(t, result) ==
    /\ tasks' = tasks (-) SetToBag({t})
    /\ disk' = saveCache(result.cache, now)
    /\ memoryCache' = MapSet(memoryCache, t.user,
                             [data |-> result.repos, fetchedAt |-> now])
    /\ finished' = MapSet(finished, t.user, result.repos)
    /\ out' = IF t.awaited
              THEN Response(t.user, t.config, Project(result.repos, t.config), NO_CACHE)
              ELSE NoOut

\* SettleThrow with the identity's entry dropped on failure.
SettleThrowEvicting(t) ==
    /\ tasks' = tasks (-) SetToBag({t})
    /\ out' = IF t.awaited THEN Rejection(t.user) ELSE UnhandledRejection(t.user)
    /\ memoryCache' = [k \in DOMAIN memoryCache \ {t.user} |-> memoryCache[k]]
    /\ UNCHANGED <<disk, finished>>

\* fetchAndCache throws: getRepos rejects when it awaited this call, else
\* revalidatePromise rejects.
SettleThrow(t) ==
    /\ tasks' = tasks (-) SetToBag({t})
    /\ out' = IF t.awaited THEN Rejection(t.user) ELSE UnhandledRejection(t.user)
    /\ UNCHANGED <<memoryCache, disk, finished>>

\* The state after a step of task t that ended in `result`.
Settle(t, result) ==
    CASE result.kind = "await" -> SettleAwait(t, result)
      [] result.kind = "return" -> SettleReturn(t, result)
      [] result.kind = "throw" -> SettleThrow(t)

-----------------------------------------------------------------------------
(* The actions *)

Init ==
    /\ now = 0
    /\ memoryCache = <<>>
    /\ revalidatePromise = "null"
    /\ revalidateUser = "null"
    /\ disk = <<>>
    /\ tasks = EmptyBag
    /\ finished = <<>>
    /\ out = NoOut
    /\ call = NoCall

\* A call getRepos(config) for `username` (config.user, or the authenticated
\* user), up to its return or to its await of fetchAndCache.
GetRepos(username, config) ==
    /\ IF Cached(username) /\ FromCache(username, now)
       THEN /\ IF StartsRevalidation(username, now)
               THEN /\ BagCardinality(tasks) < MaxInFlight
                    /\ revalidateUser' = username
                    /\ revalidatePromise' = "promise"
                    /\ tasks' = tasks (+) SetToBag({NewTask(username, config, FALSE)})
               ELSE UNCHANGED <<revalidateUser, revalidatePromise, tasks>>
            /\ out' = Response(username, config,
                               Project(memoryCache[username].data, config),
                               HitStats(username, now))
       ELSE /\ BagCardinality(tasks) < MaxInFlight
            /\ tasks' = tasks (+) SetToBag({NewTask(username, config, TRUE)})
            /\ out' = NoOut
            /\ UNCHANGED <<revalidateUser, revalidatePromise>>
    /\ UNCHANGED <<now, memoryCache, disk, finished, call>>

LoadCacheDone(t) ==
    /\ t.pc = "loadCache"
    /\ Settle(t, AfterLoadCache(t, disk, now))
    /\ UNCHANGED <<now, revalidatePromise, revalidateUser, call>>

SearchPageDone(t) ==
    /\ t.pc = "search"
    /\ Settle(t, AfterSearchPage(t, SearchPage(t.user, t.year, t.page)))
    /\ UNCHANGED <<now, revalidatePromise, revalidateUser, call>>

SearchPageFailed(t) ==
    /\ t.pc = "search"
    /\ Settle(t, SearchFailed(t))
    /\ UNCHANGED <<now, revalidatePromise, revalidateUser, call>>

RepoDataDone(t, ok) ==
    /\ t.pc = "fetchRepoData"
    /\ Settle(t, AfterRepoData(t, ok))
    /\ UNCHANGED <<now, revalidatePromise, revalidateUser, call>>

\* Time passes.
Tick(t) ==
    /\ t > now
    /\ now' = t
    /\ out' = NoOut
    /\ UNCHANGED <<memoryCache, revalidatePromise, revalidateUser, disk, tasks,
                   finished, call>>

\* The process ends and a new one starts: the module's state is initialised
\* again, the cache file stays.
Restart ==
    /\ memoryCache' = <<>>
    /\ revalidatePromise' = "null"
    /\ revalidateUser' = "null"
    /\ tasks' = EmptyBag
    /\ finished' = <<>>
    /\ out' = NoOut
    /\ UNCHANGED <<now, disk, call>>

Next ==
    \/ \E u \in Users, c \in Configs : GetRepos(u, c)
    \/ \E t \in BagToSet(tasks) : LoadCacheDone(t)
    \/ \E t \in BagToSet(tasks) : SearchPageDone(t)
    \/ \E t \in BagToSet(tasks) : SearchPageFailed(t)
    \/ \E t \in BagToSet(tasks), ok \in BOOLEAN : RepoDataDone(t, ok)
    \/ \E t \in Instants : Tick(t)
    \/ Restart

Spec == Init /\ [][Next]_vars

-----------------------------------------------------------------------------
(* The enrichment pass on its own: a refresh that has one search page left, *)
(* for every list of rollups it may hold by then, every cache file it may   *)
(* have loaded and every config.starsLimit                                  *)

RepoNames == {<<"alice", "x">>, <<"bob", "y">>, <<"carol", "z">>}

SeqsUpTo(S, n) == UNION {[1..k -> S] : k \in 0..n}

\* One PR record per repository, as the search returns them.
RecordsOf(names) ==
    {[repository_url |-> RepoUrl(n[1], n[2]), created_at |-> <<CurrentYear, 1, 1>>] :
        n \in names}

\* A cache file an earlier refresh for `owner` has written at time 0, with an
\* entry for each of `names`: stars and visibility as they were then.
DurableSnapshot(names, owner) ==
    LET Entry(n) == [name |-> n[2], fullName |-> n, stars |-> 7, prCount |-> 1,
                     isOwned |-> IsOwned(n, owner), isPrivate |-> TRUE,
                     lastContributedAt |-> <<startYear, 1, 1>>]
        IsIn(n) == n \in names
        listed == SelectSeq(<<<<"alice", "x">>, <<"bob", "y">>, <<"carol", "z">>>>, IsIn)
    IN  [username |-> owner,
         repos |-> [k \in 1..Len(listed) |-> Entry(listed[k])],
         fetchedAt |-> toISOString(0)]

\* The refresh of `username` when only the search of startYear is left: it
\* has loaded `cache` and folded the records `prs` of the later years.
MidRefresh(username, starsLimit, prs, cache) ==
    [NewTask(username, [DEFAULT_CONFIG EXCEPT !.scope = "all",
                                              !.starsLimit = starsLimit], TRUE)
        EXCEPT !.pc = "search", !.cache = cache,
               !.reposMap = FoldItems(<<>>, prs, username),
               !.year = startYear, !.page = 1]

InitEnrich ==
    /\ now = 0
    /\ memoryCache = <<>>
    /\ revalidatePromise = "null"
    /\ revalidateUser = "null"
    /\ finished = <<>>
    /\ out = NoOut
    /\ call = NoCall
    /\ \E u \in Users, b \in 0..MaxBudget, names \in SUBSET RepoNames,
          prs \in SeqsUpTo(RecordsOf(RepoNames), MaxFolded) :
          LET cache == DurableSnapshot(names, CHOOSE o \in Users : o # u)
          IN  /\ disk = <<cache>>
              /\ tasks = SetToBag({MidRefresh(u, b, prs, cache)})

NextEnrich ==
    \/ \E t \in BagToSet(tasks) : SearchPageDone(t)
    \/ \E t \in BagToSet(tasks), ok \in BOOLEAN : RepoDataDone(t, ok)

SpecEnrich == InitEnrich /\ [][NextEnrich]_vars

-----------------------------------------------------------------------------
(* The reads of a process, and of the processes after it, the remote *)
(* answering every call: for every config.limit and two values of    *)
(* sortBy, with the default starsLimit                               *)

ReadConfigs ==
    {[DEFAULT_CONFIG EXCEPT !.scope = "all", !.sortBy = sortBy, !.limit = limit] :
        sortBy \in {"stars", "contributions"}, limit \in 0..MaxLimit}

NextRead ==
    \/ \E c \in ReadConfigs : GetRepos("alice", c)
    \/ \E t \in BagToSet(tasks) : LoadCacheDone(t)
    \/ \E t \in BagToSet(tasks) : SearchPageDone(t)
    \/ \E t \in BagToSet(tasks), ok \in {TRUE} : RepoDataDone(t, ok)
    \/ Restart

SpecRead == Init /\ [][NextRead]_vars

-----------------------------------------------------------------------------
(* The fold of PR records on its own: the loop over the items of the search  *)
(* pages of one aggregation, for every list of records the remote may return *)

\* The records the remote may return: three PRs to alice/x and one to bob/y,
\* one whose repository_url is not an API url, one without repository_url.
FoldRecords ==
    RecordsOf({<<"bob", "y">>})
    \cup {[repository_url |-> RepoUrl("alice", "x"), created_at |-> <<CurrentYear, 3, d>>] :
            d \in 1..3}
    \cup {[repository_url |-> <<"https:", "", "github.com", "alice", "x">>,
           created_at |-> <<CurrentYear, 4, 1>>],
          [created_at |-> <<CurrentYear, 5, 1>>]}

InitFold ==
    /\ now = 0
    /\ memoryCache = <<>>
    /\ revalidatePromise = "null"
    /\ revalidateUser = "null"
    /\ disk = <<>>
    /\ tasks = EmptyBag
    /\ finished = <<>>
    /\ out = NoOut
    /\ \E u \in Users, items \in SeqsUpTo(FoldRecords, MaxRecords) :
          call = [fn |-> "fetchPRsForYear", username |-> u, items |-> items,
                  n |-> 0, reposMap |-> <<>>, threw |-> FALSE]

\* One turn of the loop over the items: the next record is folded into
\* reposMap, or the loop throws.
FoldNextRecord ==
    /\ call.fn = "fetchPRsForYear"
    /\ ~call.threw
    /\ call.n < Len(call.items)
    /\ LET pr == call.items[call.n + 1]
       IN  call' = IF ~HasUrl(pr) THEN [call EXCEPT !.threw = TRUE]
                   ELSE [call EXCEPT !.n = @ + 1,
                                     !.reposMap = FoldPR(@, pr, call.username)]
    /\ UNCHANGED <<now, memoryCache, revalidatePromise, revalidateUser, disk,
                   tasks, finished, out>>

NextFold == FoldNextRecord

SpecFold == InitFold /\ [][NextFold]_vars

-----------------------------------------------------------------------------
(* filterRepos on its own, called as getRepos calls it: with the rollups of *)
(* a refresh as both repos and allRepos, for every such list and config     *)

\* The rollups of `username` for the repositories `names`, in that order,
\* those of `private` being private.
RollupsOf(names, private, username) ==
    [k \in 1..Len(names) |->
        [name |-> names[k][2], fullName |-> names[k], stars |-> 0, prCount |-> 1,
         isOwned |-> IsOwned(names[k], username),
         isPrivate |-> names[k] \in private,
         lastContributedAt |-> <<CurrentYear, 1, 1>>]]

\* The lists of at most n repositories, no repository twice.
NameLists(n) ==
    {l \in SeqsUpTo(RepoNames, n) : \A i, j \in 1..Len(l) : l[i] = l[j] => i = j}

FilterConfigs ==
    {[DEFAULT_CONFIG EXCEPT !.scope = sc, !.includePrivate = ip,
                            !.include = inc, !.exclude = exc] :
        sc \in {"own", "external", "all"}, ip \in BOOLEAN,
        inc \in SeqsUpTo(RepoNames, MaxIncluded), exc \in SeqsUpTo(RepoNames, 1)}

InitFilter ==
    /\ now = 0
    /\ memoryCache = <<>>
    /\ revalidatePromise = "null"
    /\ revalidateUser = "null"
    /\ disk = <<>>
    /\ tasks = EmptyBag
    /\ finished = <<>>
    /\ out = NoOut
    /\ \E u \in Users, names \in NameLists(MaxRepos), config \in FilterConfigs :
          \E private \in SUBSET {names[k] : k \in 1..Len(names)} :
              call = [fn |-> "filterRepos", repos |-> RollupsOf(names, private, u),
                      config |-> config, done |-> FALSE, result |-> <<>>,
                      redone |-> FALSE, again |-> <<>>]

\* repos = filterRepos(repos, config, repos)
FilterCall ==
    /\ call.fn = "filterRepos"
    /\ ~call.done
    /\ call' = [call EXCEPT !.done = TRUE,
                            !.result = filterRepos(call.repos, call.config, call.repos)]
    /\ UNCHANGED <<now, memoryCache, revalidatePromise, revalidateUser, disk,
                   tasks, finished, out>>

\* filterRepos applied to its own result, allRepos being the full list still.
FilterAgain ==
    /\ call.fn = "filterRepos"
    /\ call.done /\ ~call.redone
    /\ call' = [call EXCEPT !.redone = TRUE,
                            !.again = filterRepos(call.result, call.config, call.repos)]
    /\ UNCHANGED <<now, memoryCache, revalidatePromise, revalidateUser, disk,
                   tasks, finished, out>>

NextFilter == FilterCall \/ FilterAgain

SpecFilter == InitFilter /\ [][NextFilter]_vars

-----------------------------------------------------------------------------
(* sortRepos on its own, for every list of rollups and every sortBy *)

\* The rollups a list to sort is made of.
SortRollups ==
    {[name |-> n[2], fullName |-> n, stars |-> st, prCount |-> pc,
      isOwned |-> FALSE, isPrivate |-> FALSE,
      lastContributedAt |-> <<CurrentYear, m, 1>>] :
        n \in RepoNames, st \in {10, 100}, pc \in {1, 4}, m \in 1..2}

InitSort ==
    /\ now = 0
    /\ memoryCache = <<>>
    /\ revalidatePromise = "null"
    /\ revalidateUser = "null"
    /\ disk = <<>>
    /\ tasks = EmptyBag
    /\ finished = <<>>
    /\ out = NoOut
    /\ \E l \in SeqsUpTo(SortRollups, MaxSorted),
          sortBy \in {"stars", "contributions", "all", "recent"} :
          /\ \A i, j \in 1..Len(l) : l[i].fullName = l[j].fullName => i = j
          /\ call = [fn |-> "sortRepos", input |-> l, repos |-> l,
                     config |-> [DEFAULT_CONFIG EXCEPT !.sortBy = sortBy],
                     done |-> FALSE, result |-> <<>>]

\* sortRepos(repos, config): `sorted`, a copy of repos, is sorted and
\* returned; repos, the array passed, is not written to.
SortCall ==
    /\ call.fn = "sortRepos"
    /\ ~call.done
    /\ call' = [call EXCEPT !.done = TRUE,
                            !.result = sortRepos(call.repos, call.config),
                            !.repos = call.repos]
    /\ UNCHANGED <<now, memoryCache, revalidatePromise, revalidateUser, disk,
                   tasks, finished, out>>

NextSort == SortCall

SpecSort == InitSort /\ [][NextSort]_vars

-----------------------------------------------------------------------------
(* The paging of one year on its own: a cold refresh of alice at its last *)
(* year, for every number of PR records of that year                      *)

\* n PR records of startYear, to alice/x and bob/y in turn.
YearRecords(n) ==
    [i \in 1..n |->
        [repository_url |-> IF i % 2 = 1 THEN RepoUrl("alice", "x")
                            ELSE RepoUrl("bob", "y"),
         created_at |-> <<startYear, 1 + (i \div 28), 1 + (i % 28)>>]]

InitPages ==
    /\ now = 0
    /\ memoryCache = <<>>
    /\ revalidatePromise = "null"
    /\ revalidateUser = "null"
    /\ disk = <<>>
    /\ finished = <<>>
    /\ out = NoOut
    /\ tasks = SetToBag({MidRefresh("alice", DEFAULT_CONFIG.starsLimit, <<>>, EmptyCache)})
    /\ \E n \in 0..MaxYearRecords :
          call = [fn |-> "search", records |-> YearRecords(n), requested |-> <<>>]

\* The search answers the request of task t for its page: the remote notes
\* the page asked for, and fetchPRsForYear goes on.
SearchPageAnswered(t) ==
    /\ call.fn = "search"
    /\ t.pc = "search"
    /\ Settle(t, AfterSearchPage(t, PageOf(call.records, t.page)))
    /\ call' = [call EXCEPT !.requested = Append(@, t.page)]
    /\ UNCHANGED <<now, revalidatePromise, revalidateUser>>

NextPages == \E t \in BagToSet(tasks) : SearchPageAnswered(t)

SpecPages == InitPages /\ [][NextPages]_vars

-----------------------------------------------------------------------------
(* What the claims speak of *)

\* The background revalidations of username in the bag.
RevalidationsIn(bag, username) ==
    LET mine == {t \in BagToSet(bag) : t.user = username /\ ~t.awaited}
    IN  BagCardinality([t \in mine |-> CopiesIn(t, bag)])

\* The background revalidations in flight for username.
Revalidations(username) == RevalidationsIn(tasks, username)

\* All the refreshes in progress for username.
Refreshes(username) ==
    LET mine == {t \in BagToSet(tasks) : t.user = username}
    IN  BagCardinality([t \in mine |-> CopiesIn(t, tasks)])

Age(username) == now - memoryCache[username].fetchedAt

HitOut(o) == o.kind = "response" /\ o.cache.fromCache
MissOut(o) == o.kind = "response" /\ ~o.cache.fromCache

-----------------------------------------------------------------------------
(* The claims *)

\* C1: at every moment at most one background revalidation is in flight for
\* any single identity.
C1_SingleFlight == \A u \in Users : Revalidations(u) <= 1

\* C2: a read that is served a stale entry (60 s <= age < 24 h) returns
\* isStale = true and leaves exactly one revalidation in flight for its
\* identity: it schedules one when none was outstanding, and none when one was.
C2_StaleReadsScheduleOne ==
    [][(HitOut(out') /\ Age(out'.user) >= CACHE_AGE_MS)
          => /\ out'.cache.isStale
             /\ (RevalidationsIn(tasks, out'.user) <= 1
                   => RevalidationsIn(tasks', out'.user) = 1)]_vars

\* C3: a read that is served a fresh entry (age < 60 s) returns
\* fromCache = true, isStale = false and schedules no revalidation.
C3_FreshReadSchedulesNothing ==
    [][(HitOut(out') /\ Age(out'.user) < CACHE_AGE_MS)
          => /\ ~out'.cache.isStale
             /\ tasks' = tasks]_vars

\* C4: the in-flight marker is cleared when the revalidation settles: whenever
\* the marker is set, a revalidation of the marked identity is in flight.
C4_MarkerClearedOnSettle ==
    revalidatePromise # "null" => Revalidations(revalidateUser) >= 1

\* C7: no two refreshes (fetchAndCache) of the same identity are in progress at
\* the same time.
C7_OneRefreshPerIdentity == \A u \in Users : Refreshes(u) <= 1

\* C5: the step in which a background revalidation fails leaves the memory
\* cache, every entry's data and fetchedAt, as it was.
C5_FailedRevalidationKeepsEntry ==
    [][out'.kind = "unhandledRejection" => memoryCache' = memoryCache]_vars

\* A background revalidation of an identity with a memory entry has just failed.
C5_Witness ==
    /\ out.kind = "unhandledRejection"
    /\ out.user \in DOMAIN memoryCache

\* C6: the rollups a read returns are those of the last refresh that finished
\* for its identity, and the memory cache holds nothing else.
C6_ReadsSeeFinishedSnapshot ==
    /\ \A u \in DOMAIN memoryCache :
          u \in DOMAIN finished /\ memoryCache[u].data = finished[u]
    /\ out.kind = "response" =>
          /\ out.user \in DOMAIN finished
          /\ out.repos = Project(finished[out.user], out.config)

\* A read was served from the cache while a refresh of the same identity holds
\* rollups it has not finished enriching.
C6_Witness ==
    /\ HitOut(out)
    /\ \E t \in BagToSet(tasks) :
          t.user = out.user /\ t.pc = "fetchRepoData" /\ t.repos # finished[out.user]

\* C8 as claimed, for the first refresh that returns in a process (the memory
\* cache is still empty): the cache-miss response comes from a refresh that ran
\* the full PR aggregation.
C8_MissAlwaysAggregates ==
    [][(MissOut(out') /\ finished = <<>> /\ memoryCache = <<>>) =>
          \E t \in BagToSet(tasks) :
              /\ t.awaited /\ t.user = out'.user /\ t.pc # "loadCache"
              /\ tasks' = tasks (-) SetToBag({t})]_vars

\* The durable snapshot in `file` is usable as the rollup list of username.
DurableUsable(file, username, time) ==
    /\ file # <<>>
    /\ file[1].fetchedAt # <<>>
    /\ time - getTime(file[1].fetchedAt) <= CACHE_TTL_MS
    /\ file[1].username = username
    /\ file[1].repos # <<>>

\* C8 amended: a cache miss answers nothing until its own refresh has
\* returned and written the memory cache; the refresh starts the full PR
\* aggregation when the durable snapshot it loads is not usable, and answers
\* without aggregating only from a usable one.
C8_MissRefreshesBeforeResponding ==
    [][/\ \A u \in Users :
            (\E c \in Configs : tasks' = tasks (+) SetToBag({NewTask(u, c, TRUE)}))
                => out' = NoOut
       /\ MissOut(out') =>
            \E t \in BagToSet(tasks) :
                /\ t.awaited /\ t.user = out'.user
                /\ tasks' = tasks (-) SetToBag({t})
                /\ memoryCache'[t.user].fetchedAt = now
                /\ out'.repos = Project(memoryCache'[t.user].data, out'.config)
                /\ t.pc = "loadCache" => DurableUsable(disk, t.user, now)
       /\ \A t \in BagToSet(tasks) :
            (t.awaited /\ ~DurableUsable(disk, t.user, now) /\ LoadCacheDone(t)) =>
                \E t2 \in BagToSet(tasks') :
                    /\ t2.user = t.user /\ t2.awaited
                    /\ t2.pc = "search" /\ t2.year = CurrentYear /\ t2.page = 1
                    /\ t2.reposMap = <<>>]_vars

\* A cache miss was answered with both of alice's repositories, by the call
\* that had waited for its refresh.
C8_Witness == MissOut(out) /\ out.user = "alice" /\ Len(out.repos) = 2

\* C9: a read is served from the cache exactly when the entry exists and is
\* younger than 24 h; it then reports isStale exactly when the age is at least
\* 60 s, and the age itself; every other read reports NO_CACHE.
C9_Classification ==
    [][/\ \A u \in Users :
            (\E c \in Configs : tasks' = tasks (+) SetToBag({NewTask(u, c, TRUE)}))
                => (u \notin DOMAIN memoryCache
                        \/ Age(u) >= STALE_WHILE_REVALIDATE_MS)
       /\ HitOut(out') =>
            /\ out'.user \in DOMAIN memoryCache
            /\ Age(out'.user) < STALE_WHILE_REVALIDATE_MS
            /\ out'.cache = [fromCache |-> TRUE,
                             isStale |-> Age(out'.user) >= CACHE_AGE_MS,
                             age |-> Age(out'.user)]
       /\ MissOut(out') =>
            out'.cache = [fromCache |-> FALSE, isStale |-> FALSE, age |-> 0]]_vars

\* A read was served an entry exactly 60 s old, as stale.
C9_Witness == HitOut(out) /\ out.cache.isStale /\ out.cache.age = CACHE_AGE_MS

\* C10: a failed search page settles the refresh at once: the memory cache and
\* the cache file stay as they were, no rollups are handed to anyone, and the
\* caller that awaited the refresh gets the error.
C10_PageFailureAbortsRefresh ==
    [][\A t \in BagToSet(tasks) :
          SearchPageFailed(t) =>
              /\ memoryCache' = memoryCache
              /\ disk' = disk
              /\ finished' = finished
              /\ tasks' = tasks (-) SetToBag({t})
              /\ out'.kind # "response"
              /\ t.awaited => out' = Rejection(t.user)]_vars

\* The caller of a cache-miss read got the error of a failed search page.
C10_Witness ==
    /\ out = Rejection("alice")
    /\ "alice" \notin DOMAIN memoryCache
    /\ disk = <<>>

\* The rollups the refresh t holds once the page it waits for is folded in.
RollupsAfterSearch(t) ==
    FoldItems(t.reposMap, SearchPage(t.user, t.year, t.page), t.user)

\* C11: a pass fetches the metadata of at most config.starsLimit repositories,
\* and of exactly that many when the cache file it loaded has no entry and
\* there are at least that many rollups.
C11_FetchesWithinBudget ==
    \A t \in BagToSet(tasks) :
        t.pc = "fetchRepoData" =>
            /\ Len(t.toFetch) <= t.config.starsLimit
            /\ (disk[1].repos = <<>> /\ Len(t.repos) >= t.config.starsLimit)
                  => Len(t.toFetch) = t.config.starsLimit

\* C12: the pass that starts when the last search page is in fetches the
\* metadata of every rollup of its hot set, whatever the cache file holds.
C12_HotSetAlwaysFetched ==
    [][\A t \in BagToSet(tasks) :
          LET n == Len(RollupsAfterSearch(t))
              top == IF StarsLimit(t.config) < n THEN StarsLimit(t.config) ELSE n
          IN  (SearchPageDone(t) /\ top > 0) =>
                  \E t2 \in BagToSet(tasks') :
                      /\ t2.pc = "fetchRepoData"
                      /\ t2.toFetch = [k \in 1..top |-> k]]_vars

\* C13: no position behind the hot set is ever fetched, and in the rollups a
\* refresh returns, every rollup behind the hot set has the stars and the
\* visibility of its entry in the cache file the refresh loaded, and 0 and
\* false when the file has no entry for it.
C13_ColdSetFromDurable ==
    [][/\ \A t \in BagToSet(tasks') :
            \A j \in 1..Len(t.toFetch) : t.toFetch[j] <= StarsLimit(t.config)
       /\ \A t \in BagToSet(tasks) :
            (tasks' = tasks (-) SetToBag({t}) /\ t.user \in DOMAIN finished') =>
                \A k \in 1..Len(finished'[t.user]) :
                    k > StarsLimit(t.config) =>
                        LET r == finished'[t.user][k]
                            c == IndexOf(disk[1].repos, r.fullName)
                        IN  IF c # 0
                            THEN /\ r.stars = disk[1].repos[c].stars
                                 /\ r.isPrivate = disk[1].repos[c].isPrivate
                            ELSE r.stars = 0 /\ r.isPrivate = FALSE]_vars

\* A refresh has returned three rollups under a budget of one: behind the hot
\* set, one has the stars of its entry in the cache file and another, with no
\* entry, the defaults.
C13_Witness ==
    \E u \in DOMAIN finished :
        /\ tasks = EmptyBag /\ out.kind = "response" /\ out.config.starsLimit = 1
        /\ Len(finished[u]) = 3
        /\ \E k1, k2 \in 2..3 :
              /\ finished[u][k1].stars = 7 /\ finished[u][k1].isPrivate
              /\ finished[u][k2].stars = 0 /\ ~finished[u][k2].isPrivate

\* C14: the step in which a metadata fetch fails throws nothing: the rollup
\* has the stars and the visibility known before (those of the cache entry
\* when there is one, else 0 and false) and the pass goes on to the next
\* repository to fetch, or the refresh returns when there is none.
C14_FetchFailureIsAbsorbed ==
    [][\A t \in BagToSet(tasks) :
          RepoDataDone(t, FALSE) =>
              LET k == t.toFetch[t.i]
                  c == IndexOf(t.cache.repos, t.repos[k].fullName)
                  Known(r) == IF c # 0
                              THEN /\ r.stars = t.cache.repos[c].stars
                                   /\ r.isPrivate = t.cache.repos[c].isPrivate
                              ELSE r.stars = 0 /\ r.isPrivate = FALSE
              IN  /\ out'.kind \notin {"error", "unhandledRejection"}
                  /\ IF t.i < Len(t.toFetch)
                     THEN \E t2 \in BagToSet(tasks') :
                              /\ t2.pc = "fetchRepoData" /\ t2.i = t.i + 1
                              /\ t2.toFetch = t.toFetch
                              /\ Known(t2.repos[k])
                     ELSE /\ tasks' = tasks (-) SetToBag({t})
                          /\ t.user \in DOMAIN finished'
                          /\ Known(finished'[t.user][k])]_vars

\* A refresh has returned with bob/y, whose fetch failed, at the defaults and
\* with alice/x, fetched after it, at its live star count.
C14_Witness ==
    \E u \in DOMAIN finished :
        \E k1, k2 \in 1..Len(finished[u]) :
            /\ k1 < k2 /\ k2 <= StarsLimit(out.config)
            /\ finished[u][k1].fullName = <<"bob", "y">>
            /\ finished[u][k1].stars = 0
            /\ finished[u][k2].fullName = <<"alice", "x">>
            /\ finished[u][k2].stars = 5

\* C15: fetchedAt of the cache file is the time of the last full PR
\* aggregation written to it: a refresh that returns the rollup list of the
\* file itself, without aggregating, leaves fetchedAt as it was.
C15_FetchedAtIsAggregationTime ==
    [][\A t \in BagToSet(tasks) :
          (LoadCacheDone(t) /\ tasks' = tasks (-) SetToBag({t})) =>
              disk'[1].fetchedAt = disk[1].fetchedAt]_vars

\* The positions, among the first n records of the fold, of those whose
\* repository reference parses to fullName.
RecordsFor(fullName, n) ==
    {i \in 1..n : HasUrl(call.items[i])
                    /\ parseRepoUrl(call.items[i].repository_url) = fullName}

\* Timestamp a is before timestamp b, as texts of the same format compare.
Before(a, b) ==
    \/ a[1] < b[1]
    \/ a[1] = b[1] /\ a[2] < b[2]
    \/ a[1] = b[1] /\ a[2] = b[2] /\ a[3] < b[3]

\* C16: at every point of the fold, the rollups are one per fullName that a
\* folded record parses to, and the prCount of each is the number of folded
\* records that parse to its fullName.
C16_CountsPerRepository ==
    call.fn = "fetchPRsForYear" =>
        /\ \A k \in 1..Len(call.reposMap) :
              /\ call.reposMap[k].fullName # <<>>
              /\ call.reposMap[k].prCount =
                    Cardinality(RecordsFor(call.reposMap[k].fullName, call.n))
              /\ \A j \in 1..Len(call.reposMap) :
                    call.reposMap[j].fullName = call.reposMap[k].fullName => j = k
        /\ \A i \in 1..call.n :
              LET fullName == parseRepoUrl(call.items[i].repository_url)
              IN  fullName # <<>> =>
                      \E k \in 1..Len(call.reposMap) :
                          call.reposMap[k].fullName = fullName

\* Four records have been folded into two rollups, one of them counting
\* three; no record was dropped.
C16_Witness ==
    /\ call.fn = "fetchPRsForYear" /\ call.n = 4
    /\ Len(call.reposMap) = 2
    /\ \E k \in 1..2 : call.reposMap[k].prCount = 3

\* C17: the prCount of a rollup is the number of distinct records among the
\* folded ones that parse to its fullName: a record the remote returned twice
\* counts once.
C17_DistinctRecordsCounted ==
    call.fn = "fetchPRsForYear" =>
        \A k \in 1..Len(call.reposMap) :
            call.reposMap[k].prCount =
                Cardinality({call.items[i] :
                                i \in RecordsFor(call.reposMap[k].fullName, call.n)})

\* C18: at every point of the fold, lastContributedAt of a rollup is the
\* latest created_at among the folded records of its repository, whatever
\* their order, and a step of the fold moves it to no earlier timestamp.
C18_LastContributionIsMax ==
    [][call'.fn = "fetchPRsForYear" =>
          /\ \A k \in 1..Len(call'.reposMap) :
                LET mine == RecordsFor(call'.reposMap[k].fullName, call'.n)
                    last == call'.reposMap[k].lastContributedAt
                IN  /\ \E i \in mine : call.items[i].created_at = last
                    /\ \A i \in mine : ~Before(last, call.items[i].created_at)
          /\ \A k \in 1..Len(call.reposMap) :
                ~Before(call'.reposMap[k].lastContributedAt,
                        call.reposMap[k].lastContributedAt)]_vars

\* Three records of alice/x have been folded, the latest of them second: the
\* rollup has the timestamp of the second.
C18_Witness ==
    /\ call.fn = "fetchPRsForYear" /\ call.n = 3
    /\ Len(call.reposMap) = 1
    /\ Before(call.items[1].created_at, call.items[2].created_at)
    /\ Before(call.items[3].created_at, call.items[2].created_at)
    /\ call.reposMap[1].lastContributedAt = call.items[2].created_at

\* C19: a record whose repository reference does not parse, or is not there,
\* is passed over: the fold does not throw, the rollups stay as they were
\* and the fold goes on with the next record.
C19_UnparseableRecordDropped ==
    [][(call.fn = "fetchPRsForYear" /\ call.n < Len(call.items)) =>
          LET pr == call.items[call.n + 1]
          IN  (~HasUrl(pr) \/ parseRepoUrl(pr.repository_url) = <<>>) =>
                  /\ ~call'.threw
                  /\ call'.reposMap = call.reposMap
                  /\ call'.n = call.n + 1]_vars

\* What the claim says filterRepos keeps under config.
ClaimedKept(r, config) ==
    LET excluded == {config.exclude[i] : i \in 1..Len(config.exclude)}
        included == {config.include[i] : i \in 1..Len(config.include)}
        scopeRule == /\ config.scope = "own" => r.isOwned
                     /\ config.scope = "external" => ~r.isOwned
        visibilityRule == config.includePrivate \/ ~r.isPrivate
    IN  /\ r.fullName \notin excluded
        /\ r.fullName \in included \/ (scopeRule /\ visibilityRule)

\* C20: filterRepos returns, in their order, the repositories that are not in
\* exclude and are in include or pass both the scope rule and the visibility
\* rule, each of them once.
C20_FilterRule ==
    (call.fn = "filterRepos" /\ call.done) =>
        LET Kept(r) == ClaimedKept(r, call.config)
        IN  call.result = SelectSeq(call.repos, Kept)

\* filterRepos has dropped a repository that is in both include and exclude
\* and kept one that only include saves from the scope and visibility rules.
C20_Witness ==
    /\ call.fn = "filterRepos" /\ call.done
    /\ Len(call.repos) = 2 /\ Len(call.result) = 1
    /\ \E k \in 1..2 :
          /\ InList(call.config.include, call.repos[k].fullName)
          /\ InList(call.config.exclude, call.repos[k].fullName)
          /\ call.result[1] # call.repos[k]
    /\ InList(call.config.include, call.result[1].fullName)
    /\ call.result[1].isPrivate /\ ~call.config.includePrivate
    /\ call.result[1].isOwned /\ call.config.scope = "external"

\* C21: filterRepos applied to its own result, with the same config and the
\* same full list, returns the repositories of that result, no more and no
\* fewer.
C21_FilterIdempotent ==
    (call.fn = "filterRepos" /\ call.redone) =>
        /\ {call.again[k] : k \in 1..Len(call.again)}
              = {call.result[k] : k \in 1..Len(call.result)}
        /\ Len(call.again) = Len(call.result)

\* filterRepos has been applied twice to two repositories, and kept one of
\* them, which is in include, both times.
C21_Witness ==
    /\ call.fn = "filterRepos" /\ call.redone
    /\ Len(call.repos) = 2 /\ Len(call.result) = 1 /\ Len(call.again) = 1
    /\ InList(call.config.include, call.again[1].fullName)

\* Rollup a does not rank behind rollup b under sortBy.
RanksNoLower(a, b, sortBy) ==
    CASE sortBy = "stars" -> a.stars >= b.stars
      [] sortBy = "contributions" -> a.prCount >= b.prCount
      [] sortBy = "all" ->
            a.stars * a.prCount * a.prCount >= b.stars * b.prCount * b.prCount
      [] sortBy = "recent" -> ~Before(a.lastContributedAt, b.lastContributedAt)

\* C22: sortRepos returns the rollups of its input, each once, in
\* non-increasing order of the key of sortBy, and leaves the array it was
\* given as it was; under "all" a rollup with 10 stars and 4 PRs comes before
\* one with 100 stars and 1 PR.
C22_SortedPermutation ==
    (call.fn = "sortRepos" /\ call.done) =>
        /\ call.repos = call.input
        /\ Len(call.result) = Len(call.input)
        /\ \A k \in 1..Len(call.input) :
              Cardinality({j \in 1..Len(call.result) : call.result[j] = call.input[k]}) = 1
        /\ \A j \in 1..(Len(call.result) - 1) :
              RanksNoLower(call.result[j], call.result[j + 1], call.config.sortBy)
        /\ call.config.sortBy = "all" =>
              \A i, j \in 1..Len(call.result) :
                  (/\ call.result[i].stars = 10 /\ call.result[i].prCount = 4
                   /\ call.result[j].stars = 100 /\ call.result[j].prCount = 1)
                      => i < j

\* Sorted by "all", the rollup with 100 stars and 1 PR, first in the input,
\* comes second, after the one with 10 stars and 4 PRs.
C22_Witness ==
    /\ call.fn = "sortRepos" /\ call.done /\ call.config.sortBy = "all"
    /\ Len(call.input) = 2
    /\ call.input[1].stars = 100 /\ call.input[1].prCount = 1
    /\ call.input[2].stars = 10 /\ call.input[2].prCount = 4
    /\ call.result = <<call.input[2], call.input[1]>>

\* C23: what a read returns, from the cache or after its own refresh, is the
\* filtered and sorted rollups of its identity cut to the first config.limit
\* of them when limit > 0, and all of them when limit = 0.
C23_LimitCutsAfterSort ==
    out.kind = "response" =>
        LET data == finished[out.user]
            sorted == sortRepos(filterRepos(data, out.config, data), out.config)
            kept == IF out.config.limit > 0 /\ out.config.limit < Len(sorted)
                    THEN out.config.limit ELSE Len(sorted)
        IN  out.repos = [k \in 1..kept |-> sorted[k]]

\* A read with limit 1 was served from the cache and got one of the two
\* rollups of alice, the one with more stars.
C23_Witness ==
    /\ HitOut(out) /\ out.config.limit = 1 /\ out.config.sortBy = "stars"
    /\ Len(finished[out.user]) = 2
    /\ Len(out.repos) = 1 /\ out.repos[1].stars = 50

\* C24: with no cache file when its refresh returns, a read for alice with
\* scope "all", sortBy "stars" and no limit that missed the memory cache
\* returns bob/y (50 stars, 1 PR), then alice/x (5 stars, 2 PRs), and
\* reports fromCache = false.
C24_ColdStartEndToEnd ==
    [][(/\ MissOut(out') /\ out'.user = "alice" /\ disk = <<>>
        /\ out'.config = [DEFAULT_CONFIG EXCEPT !.scope = "all"]) =>
          /\ Len(out'.repos) = 2
          /\ out'.repos[1].fullName = <<"bob", "y">>
          /\ out'.repos[1].stars = 50 /\ out'.repos[1].prCount = 1
          /\ out'.repos[2].fullName = <<"alice", "x">>
          /\ out'.repos[2].stars = 5 /\ out'.repos[2].prCount = 2
          /\ ~out'.cache.fromCache]_vars

\* The first refresh of a process has answered a read of alice with scope
\* "all" and sortBy "stars": the cache file now holds what it fetched.
C24_Witness ==
    /\ MissOut(out) /\ out.user = "alice"
    /\ out.config = [DEFAULT_CONFIG EXCEPT !.scope = "all"]
    /\ tasks = EmptyBag /\ revalidatePromise = "null"
    /\ Len(disk[1].repos) = 2 /\ Len(out.repos) = 2

\* C25: every repository a read returns for an identity is one that a PR
\* record of that identity refers to.
C25_OnlyOwnAggregation ==
    out.kind = "response" =>
        \A k \in 1..Len(out.repos) :
            \E i \in 1..Len(PullRequests(out.user)) :
                parseRepoUrl(PullRequests(out.user)[i].repository_url)
                    = out.repos[k].fullName

\* The fullName and prCount of every rollup of a list.
Counts(repos) ==
    {<<repos[k].fullName, repos[k].prCount>> : k \in 1..Len(repos)}

\* C26: a refresh that returns the rollup list of the cache file returns the
\* repositories, with the prCount values, of the refresh that returned last
\* for its identity.
C26_DurableListKeepsRepositories ==
    [][\A t \in BagToSet(tasks) :
          (/\ LoadCacheDone(t) /\ tasks' = tasks (-) SetToBag({t})
           /\ t.user \in DOMAIN finished) =>
              Counts(finished'[t.user]) = Counts(finished[t.user])]_vars

\* The rollups `after` have, one by one, the fullName, prCount, isOwned and
\* lastContributedAt that the rollups `before` have for the same repository.
SameAggregates(after, before) ==
    \A k \in 1..Len(after) :
        \E j \in 1..Len(before) :
            /\ before[j].fullName = after[k].fullName
            /\ before[j].prCount = after[k].prCount
            /\ before[j].isOwned = after[k].isOwned
            /\ before[j].lastContributedAt = after[k].lastContributedAt

\* C27: from the rollups the aggregation hands over to those the refresh
\* returns, through fetchStarsForRepos and the back-fill, every rollup keeps
\* its prCount, isOwned and lastContributedAt.
C27_EnrichmentFrame ==
    [][\A t \in BagToSet(tasks) :
          LET Held(before) ==
                  /\ \A t2 \in BagToSet(tasks') : SameAggregates(t2.repos, before)
                  /\ tasks' = tasks (-) SetToBag({t}) =>
                        SameAggregates(finished'[t.user], before)
          IN  /\ SearchPageDone(t) => Held(RollupsAfterSearch(t))
              /\ (\E ok \in BOOLEAN : RepoDataDone(t, ok)) => Held(t.repos)]_vars

\* The records folded into the rollups `repos`.
RECURSIVE TotalPRs(_)
TotalPRs(repos) ==
    IF repos = <<>> THEN 0 ELSE Head(repos).prCount + TotalPRs(Tail(repos))

\* C28: the pages of a year are requested in the order 1, 2, ...; as long as
\* the paging goes on every page requested was full and is folded; once it
\* is over, floor(n / 100) + 1 pages have been requested and all the n
\* records of the year are folded.
C28_PagingStopsAfterShortPage ==
    call.fn = "search" =>
        LET n == Len(call.records)
            asked == Len(call.requested)
        IN  /\ call.requested = [k \in 1..asked |-> k]
            /\ \A t \in BagToSet(tasks) :
                  IF t.pc = "search"
                  THEN /\ t.page = asked + 1
                       /\ asked * perPage <= n
                       /\ TotalPRs(t.reposMap) = asked * perPage
                  ELSE /\ asked = (n \div perPage) + 1
                       /\ TotalPRs(t.repos) = n
            /\ tasks = EmptyBag =>
                  /\ asked = (n \div perPage) + 1
                  /\ TotalPRs(finished["alice"]) = n

\* A year of 200 records: pages 1, 2 and 3 have been requested, the third
\* came back empty, and 200 records are folded.
C28_Witness ==
    /\ call.fn = "search" /\ Len(call.records) = 200
    /\ call.requested = <<1, 2, 3>>
    /\ \E t \in BagToSet(tasks) : t.pc = "fetchRepoData" /\ TotalPRs(t.repos) = 200

====
